---- MODULE Spec2Model ----
(***************************************************************************)
(* A model of the shadowsocks multi-port relay server:                     *)
(*   - the destination policy of the TCP and of the UDP handler,           *)
(*   - the TCP request header parse and the relay of one connection,       *)
(*   - the framed stream (Conn.Read / Conn.Write),                         *)
(*   - the UDP serve loop, the NAT table, its timers and reverse paths,    *)
(*   - the port/password manager and the reload controller.                *)
(* Each part has its own specification over the same variables; the parts  *)
(* a specification does not exercise stay at their initial value.          *)
(***************************************************************************)
EXTENDS Integers, Sequences, FiniteSets, Bags, TLC

(***************************************************************************)
(* Text.  A Go string is a sequence of one-character strings, so that      *)
(* strings.HasPrefix and strconv.Itoa are computed, not assumed.           *)
(***************************************************************************)
HasPrefix(s, prefix) ==
    /\ Len(s) >= Len(prefix)
    /\ SubSeq(s, 1, Len(prefix)) = prefix

IsPrefixOf(a, b) ==
    /\ Len(a) <= Len(b)
    /\ SubSeq(b, 1, Len(a)) = a

Digit(d) ==
    <<"0", "1", "2", "3", "4", "5", "6", "7", "8", "9">>[d + 1]

RECURSIVE Itoa(_)
Itoa(n) ==
    IF n < 10 THEN <<Digit(n)>> ELSE Itoa(n \div 10) \o <<Digit(n % 10)>>

HexDigit(d) ==
    <<"0", "1", "2", "3", "4", "5", "6", "7", "8", "9", "a", "b", "c", "d", "e", "f">>[d + 1]

RECURSIVE Hex(_)
Hex(n) ==
    IF n < 16 THEN <<HexDigit(n)>> ELSE Hex(n \div 16) \o <<HexDigit(n % 16)>>

\* string(b) for one byte: the letters, digits and dots of the model's names
Chr(b) ==
    CASE b = 46 -> "."
      [] b \in 48..57 -> Digit(b - 48)
      [] b = 97 -> "a"
      [] b = 98 -> "b"
      [] b = 99 -> "c"
      [] OTHER -> "?"

\* string(bytes)
ByteString(bs) ==
    [i \in 1..Len(bs) |-> Chr(bs[i])]

\* binary.BigEndian.Uint16
Uint16BE(hi, lo) ==
    hi * 256 + lo

\* net.IP.To4: the 4-byte form of an IPv4 or IPv4-mapped address, <<>> otherwise
To4(b) ==
    IF Len(b) = 4 THEN b
    ELSE IF /\ Len(b) = 16
            /\ \A i \in 1..10 : b[i] = 0
            /\ b[11] = 255
            /\ b[12] = 255
         THEN SubSeq(b, 13, 16)
         ELSE <<>>

\* net.IP.String: dotted decimal for an address with a 4-byte form; for the
\* 16-byte addresses of this model (the first 14 bytes zero) the compressed
\* form "::" followed by the last group in hexadecimal.
IPString(b) ==
    IF To4(b) # <<>>
    THEN LET q == To4(b)
         IN  Itoa(q[1]) \o <<".">> \o Itoa(q[2]) \o <<".">> \o Itoa(q[3]) \o <<".">> \o Itoa(q[4])
    ELSE <<":", ":">> \o Hex(Uint16BE(b[15], b[16]))

\* net.IPAddr.String: the text of the IP, followed by "%" and the zone when
\* the address has one
IPAddrString(b, zone) ==
    IF zone # <<>> THEN IPString(b) \o <<"%">> \o zone ELSE IPString(b)

(***************************************************************************)
(* Destination policy.                                                     *)
(***************************************************************************)
S127 == <<"1", "2", "7", ".">>
S108 == <<"1", "0", ".", "8", ".">>
SLoop6 == <<":", ":", "1">>
P1194 == <<"1", "1", "9", "4">>

\* handleConnection: the test that logs "illegal connect to local network"
TcpDenied(ip, p, openvpn) ==
    \/ (HasPrefix(ip, S127) /\ (p # P1194 \/ openvpn # "ok"))
    \/ HasPrefix(ip, S108)
    \/ ip = SLoop6

\* HandleUDPConnection: the test that logs "[udp]illegal connect to local network"
UdpDenied(ip, p, openvpn) ==
    \/ (HasPrefix(ip, S127) /\ (p # P1194 \/ openvpn # "ok"))
    \/ HasPrefix(ip, S108)
    \/ ip = SLoop6

(***************************************************************************)
(* State.                                                                  *)
(***************************************************************************)
VARIABLES
    \* -- the destination policy applied to one (ip, port, openvpn flag)
    polIp, polZone, polPort, polFlag, polTcp, polUdp,
    \* -- one accepted TCP connection (handleConnection)
    tcSent,     \* the plaintext the client sends on the connection
    tcRead,     \* how many of its bytes the server has read
    tcOpenvpn,  \* the openvpn flag of the listener's port
    tcPc,       \* "request", "connect", "extra", "pipe", "closed"
    tcErr,      \* why the handler returned early, "none" otherwise
    tcHost, tcPort, tcExtra, tcReqLen,
    tcConn,     \* the client socket: "open" or "closed"
    tcRemote,   \* the upstream socket: "none", "open" or "closed"
    tcDial,     \* the address given to net.Dial, <<>> before
    tcUp,       \* the bytes upstream has received
    tcPipe,     \* whether the splicing tasks were started
    \* -- one framed stream (Conn)
    fsIn,       \* the bytes of the socket not read yet
    fsDec,      \* c.dec: <<>> for nil, else the decryptor's state
    fsIvRead,   \* how many bytes were read from the socket as the IV
    fsDelivered,\* the plaintext delivered to the caller of Read
    fsEnc,      \* c.enc: <<>> for nil, else the encryptor's state
    fsOut,      \* the bytes written to the socket
    fsCalls,    \* the number of Read and Write calls made
    \* -- the UDP relay: listeners' serve loops, NAT table, reverse paths
    ulOpen,     \* per UDP listener: whether its socket is open
    hPc,        \* per UDP listener: the serve loop at "recv", "get", "send", "done"
    hCur,       \* per UDP listener: the datagram being handled
    Conns,      \* nl.Conns: client address -> upstream socket (0: no entry)
    AliveConns, \* nl.AliveConns
    socks,      \* the upstream sockets created by nl.Get, in creation order
    ReqList,    \* ReqList: destination address -> request header
    lastReply,  \* the last datagram a reverse path sent to a client
    dgCount,    \* the number of datagrams received
    sentReqs,   \* per client: destination and header of the requests received from it
    \* -- the locks around ReqList
    ReqListLock, \* ReqListLock: [w: the task holding it for writing, r: the readers]
    nlLock,     \* the mutex of nl: the task holding it ("": free)
    rqPc,       \* per task: where it is between its lock and unlock calls
    \* -- UDPConn.ReadFromUDP and the handler that calls it
    urPc,       \* "wait", "got" (ReadFromUDP returned), "returned", "panicked"
    urWire,     \* the datagram c.UDP.ReadFromUDP delivered last
    urBuf,      \* the handler's buf, which ReadFromUDP decrypts into
    urN,        \* n returned by ReadFromUDP
    urErr,      \* err returned by ReadFromUDP is not nil
    urInitDecrypt, \* c.initDecrypt was called for the last datagram
    urFwd,      \* what was written upstream for the last datagram (<<>>: nothing)
    urCount,    \* datagrams delivered so far
    \* -- the mutex of the port/password manager
    pmLock,     \* passwdManager's mutex: the task holding it ("": free)
    pmPc,       \* per task: where it is in add, addUDP, updatePortPasswd or del
    \* -- the port/password manager and the reload controller
    udp,            \* the global -u switch
    config,         \* config.PortPassword: port -> <<password, openvpn, udp>>
    tcpL,           \* the TCP listeners created by run, in creation order
    udpL,           \* the UDP listeners created by runUDP, in creation order
    portListener,   \* passwdManager.portListener: port -> TCP listener (0: none)
    udpListener,    \* passwdManager.udpListener: port -> UDP listener (0: none)
    tasks,          \* the started run / runUDP tasks that have not bound yet
    rlPc,           \* updatePasswd: "idle", "update", "del"
    rlTodo,         \* the ports of the new configuration not updated yet
    rlDel,          \* the ports left in oldconfig.PortPassword
    rlOld,          \* oldconfig.PortPassword as it was when the reload began
    rlCount,        \* the number of reloads
    rlQuiet,        \* whether every reload so far began with all started tasks done
    rlErr,          \* whether the last updatePasswd returned at the parse error
    delPc,          \* del: "none", "close", "remove"
    delPort, delPl  \* del: its port and the PortListener it got

polVars == <<polIp, polZone, polPort, polFlag, polTcp, polUdp>>

tcVars == <<tcSent, tcRead, tcOpenvpn, tcPc, tcErr, tcHost, tcPort, tcExtra, tcReqLen,
            tcConn, tcRemote, tcDial, tcUp, tcPipe>>

fsVars == <<fsIn, fsDec, fsIvRead, fsDelivered, fsEnc, fsOut, fsCalls>>

udVars == <<ulOpen, hPc, hCur, Conns, AliveConns, socks, ReqList, lastReply, dgCount,
           sentReqs>>

mgVars == <<udp, config, tcpL, udpL, portListener, udpListener, tasks, rlPc, rlTodo, rlDel,
            rlOld, rlCount, rlQuiet, rlErr, delPc, delPort, delPl>>

rqVars == <<ReqListLock, nlLock, rqPc>>

pmVars == <<pmLock, pmPc>>

urVars == <<urPc, urWire, urBuf, urN, urErr, urInitDecrypt, urFwd, urCount>>

vars == <<polVars, tcVars, fsVars, udVars, mgVars, rqVars, pmVars, urVars>>

notPol == <<tcVars, fsVars, udVars, mgVars, rqVars, pmVars, urVars>>
notTc == <<polVars, fsVars, udVars, mgVars, rqVars, pmVars, urVars>>
notFs == <<polVars, tcVars, udVars, mgVars, rqVars, pmVars, urVars>>
notUd == <<polVars, tcVars, fsVars, mgVars, rqVars, pmVars, urVars>>
notMg == <<polVars, tcVars, fsVars, udVars, rqVars, pmVars, urVars>>
notRq == <<polVars, tcVars, fsVars, udVars, mgVars, pmVars, urVars>>
notPm == <<polVars, tcVars, fsVars, udVars, mgVars, rqVars, urVars>>
notUr == <<polVars, tcVars, fsVars, udVars, mgVars, rqVars, pmVars>>

(***************************************************************************)
(* The policy applied by both handlers to the same resolved destination.   *)
(***************************************************************************)
\* resolved addresses, as the raw bytes of a net.IP
PolIps ==
    { <<127, 0, 0, 1>>, <<127, 1, 2, 3>>, <<12, 7, 0, 1>>, <<10, 8, 0, 5>>,
      <<10, 80, 0, 1>>, <<10, 9, 0, 1>>, <<1, 2, 3, 4>>, <<8, 8, 8, 8>>,
      <<0, 0, 0, 0, 0, 0, 0, 0, 0, 0, 0, 0, 0, 0, 0, 1>>,
      <<0, 0, 0, 0, 0, 0, 0, 0, 0, 0, 0, 0, 0, 0, 0, 17>>,
      <<0, 0, 0, 0, 0, 0, 0, 0, 0, 0, 255, 255, 127, 0, 0, 1>> }

\* zones of a resolved address: none, or the zone of an IPv6 literal
PolZones(b) ==
    IF Len(b) = 16 THEN { <<>>, <<"l", "o">> } ELSE { <<>> }

\* ports, as the two big-endian bytes of the header
PolPorts ==
    { <<0, 80>>, <<4, 170>>, <<0, 53>>, <<46, 164>> }

OpenvpnFlags ==
    { "ok", "", "no" }

PolInit ==
    /\ polIp \in PolIps
    /\ polZone \in PolZones(polIp)
    /\ polPort \in PolPorts
    /\ polFlag \in OpenvpnFlags
    /\ polTcp = "none"
    /\ polUdp = "none"

PolOff ==
    /\ polIp = <<>>
    /\ polZone = <<>>
    /\ polPort = <<>>
    /\ polFlag = ""
    /\ polTcp = "none"
    /\ polUdp = "none"

\* handleConnection from the resolved address to net.Dial: ip := addr.String()
\* is the text of the net.IPAddr, zone included
PolTcpStep ==
    /\ polIp # <<>>
    /\ polTcp = "none"
    /\ polTcp' = IF TcpDenied(IPAddrString(polIp, polZone), Itoa(Uint16BE(polPort[1], polPort[2])), polFlag)
                 THEN "rejected"
                 ELSE "dial"
    /\ UNCHANGED <<polIp, polZone, polPort, polFlag, polUdp>>
    /\ UNCHANGED notPol

\* HandleUDPConnection from the destination address to remote.WriteToUDP:
\* ip := dstIP.String() is the text of the net.IP (dIP.IP for a name)
PolUdpStep ==
    /\ polIp # <<>>
    /\ polUdp = "none"
    /\ polUdp' = IF UdpDenied(IPString(polIp), Itoa(Uint16BE(polPort[1], polPort[2])), polFlag)
                 THEN "rejected"
                 ELSE "send"
    /\ UNCHANGED <<polIp, polZone, polPort, polFlag, polTcp>>
    /\ UNCHANGED notPol

PolNext ==
    \/ PolTcpStep
    \/ PolUdpStep

(***************************************************************************)
(* The TCP request header and the relay of one accepted connection.        *)
(***************************************************************************)
typeIPv4 == 1
typeDm == 3
typeIPv6 == 4
lenIPv4 == 1 + 4 + 2
lenIPv6 == 1 + 16 + 2
lenDmBase == 1 + 1 + 2
\* getRequest: buf := make([]byte, 260)
RequestBufLen == 260

MaxPayload == 3

Min(a, b) == IF a < b THEN a ELSE b
Max(a, b) == IF a < b THEN b ELSE a

\* the switch on buf[idType] that sets reqLen; -1 when the type is not supported
ReqLenOf(buf) ==
    CASE buf[1] = typeIPv4 -> lenIPv4
      [] buf[1] = typeIPv6 -> lenIPv6
      [] buf[1] = typeDm -> buf[2] + lenDmBase
      [] OTHER -> -1

\* the host string of a header: the text of the address, or the name's bytes
HostOf(buf) ==
    CASE buf[1] = typeIPv4 -> IPString(SubSeq(buf, 2, 5))
      [] buf[1] = typeIPv6 -> IPString(SubSeq(buf, 2, 17))
      [] buf[1] = typeDm -> ByteString(SubSeq(buf, 3, 2 + buf[2]))
      [] OTHER -> <<>>

\* getRequest on a connection that carries the plaintext `sent`, when the
\* first io.ReadAtLeast returns n bytes (2 <= n <= Len(sent), n <= 260)
GetRequest(sent, n) ==
    IF Len(sent) < 2
    THEN [err |-> "read", host |-> <<>>, port |-> <<>>, extra |-> <<>>, reqLen |-> -1,
          consumed |-> Len(sent)]
    ELSE LET reqLen == ReqLenOf(sent)
         IN  IF reqLen = -1
             THEN [err |-> "atyp", host |-> <<>>, port |-> <<>>, extra |-> <<>>,
                   reqLen |-> -1, consumed |-> n]
             ELSE IF n < reqLen /\ Len(sent) < reqLen
             THEN [err |-> "read", host |-> <<>>, port |-> <<>>, extra |-> <<>>,
                   reqLen |-> reqLen, consumed |-> Len(sent)]
             ELSE [err |-> "none",
                   host |-> HostOf(sent),
                   port |-> Itoa(Uint16BE(sent[reqLen - 1], sent[reqLen])),
                   extra |-> IF n > reqLen THEN SubSeq(sent, reqLen + 1, n) ELSE <<>>,
                   reqLen |-> reqLen,
                   consumed |-> Max(n, reqLen)]

\* request headers a client may send
TcpHeaders ==
    { <<1, 1, 2, 3, 4, 0, 80>>,
      <<1, 127, 0, 0, 1, 4, 170>>,
      <<3, 1, 97, 0, 80>>,
      <<3, 2, 97, 98, 1, 187>>,
      <<3, 0, 0, 80>>,
      <<4, 0, 0, 0, 0, 0, 0, 0, 0, 0, 0, 0, 0, 0, 0, 0, 1, 0, 80>>,
      <<5, 0, 0, 0>> }

Payloads ==
    { [i \in 1..k |-> 6 + i] : k \in 0..MaxPayload }

\* what a client writes: a header and a payload, or a header cut short
TcpStreams ==
    { h \o pl : h \in TcpHeaders, pl \in Payloads }
        \cup { SubSeq(h, 1, k) : h \in { <<1, 1, 2, 3, 4, 0, 80>>, <<3, 1, 97, 0, 80>> }, k \in 0..4 }

\* what the resolver may answer for a name
DnsAnswers ==
    { <<1, 2, 3, 4>>, <<127, 0, 0, 1>>, <<10, 8, 0, 5>> }

\* what stands for the error of net.ResolveIPAddr
ResolveFailed == <<"?">>

\* net.ResolveIPAddr("ip", h) followed by addr.String(): the text itself for
\* an address literal, the empty text for the empty host (an empty IPAddr and
\* no error), any answer of the resolver or a failure for a name
ResolveIPAddr(h) ==
    IF h = <<>>
    THEN { <<>> }
    ELSE IF h \in { IPString(SubSeq(x, 2, 5)) : x \in { y \in TcpHeaders : y[1] = typeIPv4 } }
              \cup { IPString(SubSeq(x, 2, 17)) : x \in { y \in TcpHeaders : y[1] = typeIPv6 } }
    THEN { h }
    ELSE { IPString(a) : a \in DnsAnswers } \cup { ResolveFailed }

TcInit ==
    /\ tcSent \in TcpStreams
    /\ tcOpenvpn \in { "ok", "" }
    /\ tcRead = 0
    /\ tcPc = "request"
    /\ tcErr = "none"
    /\ tcHost = <<>>
    /\ tcPort = <<>>
    /\ tcExtra = <<>>
    /\ tcReqLen = -1
    /\ tcConn = "open"
    /\ tcRemote = "none"
    /\ tcDial = <<>>
    /\ tcUp = <<>>
    /\ tcPipe = FALSE

TcOff ==
    /\ tcSent = <<>>
    /\ tcOpenvpn = ""
    /\ tcRead = 0
    /\ tcPc = "closed"
    /\ tcErr = "none"
    /\ tcHost = <<>>
    /\ tcPort = <<>>
    /\ tcExtra = <<>>
    /\ tcReqLen = -1
    /\ tcConn = "closed"
    /\ tcRemote = "none"
    /\ tcDial = <<>>
    /\ tcUp = <<>>
    /\ tcPipe = FALSE

\* handleConnection: getRequest and its error return (the deferred conn.Close)
TcRequest ==
    /\ tcPc = "request"
    /\ \E n \in 2..Max(2, Min(Len(tcSent), RequestBufLen)) :
         LET r == GetRequest(tcSent, n)
         IN  /\ tcRead' = r.consumed
             /\ tcHost' = r.host
             /\ tcPort' = r.port
             /\ tcExtra' = r.extra
             /\ tcReqLen' = r.reqLen
             /\ IF r.err = "none"
                THEN /\ tcPc' = "connect"
                     /\ UNCHANGED <<tcErr, tcConn>>
                ELSE /\ tcPc' = "closed"
                     /\ tcErr' = r.err
                     /\ tcConn' = "closed"
    /\ UNCHANGED <<tcSent, tcOpenvpn, tcRemote, tcDial, tcUp, tcPipe>>
    /\ UNCHANGED notTc

\* handleConnection: resolve, the destination policy, net.Dial
TcConnect ==
    /\ tcPc = "connect"
    /\ \E ip \in ResolveIPAddr(tcHost), dialOk \in BOOLEAN :
         IF ip = ResolveFailed
         THEN /\ tcPc' = "closed"
              /\ tcErr' = "resolve"
              /\ tcConn' = "closed"
              /\ UNCHANGED <<tcRemote, tcDial>>
         ELSE IF TcpDenied(ip, tcPort, tcOpenvpn)
         THEN /\ tcPc' = "closed"
              /\ tcErr' = "policy"
              /\ tcConn' = "closed"
              /\ UNCHANGED <<tcRemote, tcDial>>
         ELSE IF ~dialOk
         THEN /\ tcPc' = "closed"
              /\ tcErr' = "dial"
              /\ tcConn' = "closed"
              /\ tcDial' = <<ip, tcPort>>
              /\ UNCHANGED tcRemote
         ELSE /\ tcPc' = "extra"
              /\ tcRemote' = "open"
              /\ tcDial' = <<ip, tcPort>>
              /\ UNCHANGED <<tcErr, tcConn>>
    /\ UNCHANGED <<tcSent, tcRead, tcOpenvpn, tcHost, tcPort, tcExtra, tcReqLen, tcUp, tcPipe>>
    /\ UNCHANGED notTc

\* a wrong order: the splicing task is started and the leftover is not written
TcWriteExtraSkipped ==
    /\ tcPc = "extra"
    /\ tcPipe' = TRUE
    /\ tcPc' = "pipe"
    /\ UNCHANGED <<tcSent, tcRead, tcOpenvpn, tcErr, tcHost, tcPort, tcExtra, tcReqLen,
                   tcConn, tcRemote, tcDial, tcUp>>
    /\ UNCHANGED notTc

\* handleConnection: remote.Write(extra) when extra is not nil, then
\* go PipeThenClose(conn, remote, ...); a failed write may have sent a part
TcWriteExtra ==
    /\ tcPc = "extra"
    /\ \/ /\ tcUp' = tcUp \o tcExtra
          /\ tcPipe' = TRUE
          /\ tcPc' = "pipe"
          /\ UNCHANGED <<tcErr, tcConn, tcRemote>>
       \/ /\ tcExtra # <<>>
          /\ \E k \in 0..(Len(tcExtra) - 1) : tcUp' = tcUp \o SubSeq(tcExtra, 1, k)
          /\ tcPc' = "closed"
          /\ tcErr' = "extra"
          /\ tcConn' = "closed"
          /\ tcRemote' = "closed"
          /\ UNCHANGED tcPipe
    /\ UNCHANGED <<tcSent, tcRead, tcOpenvpn, tcHost, tcPort, tcExtra, tcReqLen, tcDial>>
    /\ UNCHANGED notTc

\* PipeThenClose(conn, remote): one read from the client written to upstream
TcPipeCopy ==
    /\ tcPc = "pipe"
    /\ tcRead < Len(tcSent)
    /\ \E k \in 1..(Len(tcSent) - tcRead) :
         /\ tcUp' = tcUp \o SubSeq(tcSent, tcRead + 1, tcRead + k)
         /\ tcRead' = tcRead + k
    /\ UNCHANGED <<tcSent, tcOpenvpn, tcPc, tcErr, tcHost, tcPort, tcExtra, tcReqLen,
                   tcConn, tcRemote, tcDial, tcPipe>>
    /\ UNCHANGED notTc

\* PipeThenClose: a direction ends (end of stream, error, teardown flag) and
\* closes both sockets
TcPipeClose ==
    /\ tcPc = "pipe"
    /\ tcPc' = "closed"
    /\ tcConn' = "closed"
    /\ tcRemote' = "closed"
    /\ UNCHANGED <<tcSent, tcRead, tcOpenvpn, tcErr, tcHost, tcPort, tcExtra, tcReqLen,
                   tcDial, tcUp, tcPipe>>
    /\ UNCHANGED notTc

TcNext ==
    \/ TcRequest
    \/ TcConnect
    \/ TcWriteExtra
    \/ TcPipeCopy
    \/ TcPipeClose

(***************************************************************************)
(* The framed stream: Conn.Read and Conn.Write over a stream cipher.       *)
(* A byte on the wire is <<kind, value>>, kind "iv" or "ct", so that the   *)
(* bytes a peer meant as IV and as ciphertext can be told apart.           *)
(***************************************************************************)
\* c.info.ivLen
IvLen == 2
ByteMod == 4
MaxCalls == 3
MaxPlain == 2

RECURSIVE SumSeq(_)
SumSeq(q) ==
    IF q = <<>> THEN 0 ELSE q[1] + SumSeq(SubSeq(q, 2, Len(q)))

\* the key stream of a cipher initialised from iv, at position pos
KeyStream(iv, pos) ==
    (SumSeq(iv) + pos) % ByteMod

\* c.encrypt(dst, src) with the encryptor st: the ciphertext values
Encrypt(st, src) ==
    [i \in 1..Len(src) |-> (src[i] + KeyStream(st.iv, st.pos + i - 1)) % ByteMod]

\* c.decrypt(dst, src) with the decryptor st: the plaintext values
Decrypt(st, src) ==
    [i \in 1..Len(src) |-> (src[i] + ByteMod - KeyStream(st.iv, st.pos + i - 1)) % ByteMod]

\* c.initEncrypt / c.initDecrypt: a stream at position 0
NewStream(iv) ==
    [iv |-> iv, pos |-> 0]

Advance(st, n) ==
    [st EXCEPT !.pos = st.pos + n]

Tag(kind, q) ==
    [i \in 1..Len(q) |-> <<kind, q[i]>>]

Values(w) ==
    [i \in 1..Len(w) |-> w[i][2]]

\* the IV and the plaintext of the peer, and what it puts on the wire
PeerIV == [i \in 1..IvLen |-> i % ByteMod]
PeerPlain == [i \in 1..MaxPlain |-> (i + 1) % ByteMod]
PeerWire == Tag("iv", PeerIV) \o Tag("ct", Encrypt(NewStream(PeerIV), PeerPlain))

\* the IV initEncrypt generates for this side, and what callers write
OwnIV == [i \in 1..IvLen |-> (i + 2) % ByteMod]
WriteBufs == { <<1>>, <<2, 3>> }

FsInit ==
    /\ fsIn \in { SubSeq(PeerWire, 1, k) : k \in 0..Len(PeerWire) }
    /\ fsDec = <<>>
    /\ fsIvRead = 0
    /\ fsDelivered = <<>>
    /\ fsEnc = <<>>
    /\ fsOut = <<>>
    /\ fsCalls = 0

FsOff ==
    /\ fsIn = <<>>
    /\ fsDec = <<>>
    /\ fsIvRead = 0
    /\ fsDelivered = <<>>
    /\ fsEnc = <<>>
    /\ fsOut = <<>>
    /\ fsCalls = -1

\* Conn.Read, c.dec == nil and io.ReadFull(c.Conn, iv) fails after k < ivLen
\* bytes (end of stream or deadline): the error is returned, c.dec stays nil
FsReadIvFails ==
    /\ fsCalls >= 0
    /\ fsCalls < MaxCalls
    /\ fsDec = <<>>
    /\ \E k \in 0..Min(IvLen - 1, Len(fsIn)) :
         /\ fsIn' = SubSeq(fsIn, k + 1, Len(fsIn))
         /\ fsIvRead' = fsIvRead + k
    /\ fsCalls' = fsCalls + 1
    /\ UNCHANGED <<fsDec, fsDelivered, fsEnc, fsOut>>
    /\ UNCHANGED notFs

\* Conn.Read(b), len(b) = size: the IV is read when c.dec == nil, then one
\* c.Conn.Read of at most size bytes (n = 0 with an error is one outcome)
\* and the decryption of what was read
FsRead ==
    /\ fsCalls >= 0
    /\ fsCalls < MaxCalls
    /\ fsDec = <<>> => Len(fsIn) >= IvLen
    /\ LET first == fsDec = <<>>
           dec == IF first THEN NewStream(Values(SubSeq(fsIn, 1, IvLen))) ELSE fsDec
           rest == IF first THEN SubSeq(fsIn, IvLen + 1, Len(fsIn)) ELSE fsIn
       IN  \E size \in 1..2 : \E n \in 0..Min(size, Len(rest)) :
             /\ fsIvRead' = IF first THEN fsIvRead + IvLen ELSE fsIvRead
             /\ fsDelivered' = fsDelivered \o Decrypt(dec, Values(SubSeq(rest, 1, n)))
             /\ fsDec' = Advance(dec, n)
             /\ fsIn' = SubSeq(rest, n + 1, Len(rest))
    /\ fsCalls' = fsCalls + 1
    /\ UNCHANGED <<fsEnc, fsOut>>
    /\ UNCHANGED notFs

\* Conn.Write(b): the IV is put before the ciphertext when c.enc == nil; one
\* c.Conn.Write of the buffer, which writes it all or fails after j bytes
FsWrite ==
    /\ fsCalls >= 0
    /\ fsCalls < MaxCalls
    /\ \E b \in WriteBufs :
         LET first == fsEnc = <<>>
             enc == IF first THEN NewStream(OwnIV) ELSE fsEnc
             cipherData == (IF first THEN Tag("iv", OwnIV) ELSE <<>>)
                               \o Tag("ct", Encrypt(enc, b))
         IN  /\ fsEnc' = Advance(enc, Len(b))
             /\ \E j \in 0..Len(cipherData) :
                  fsOut' = IF j = 0 THEN fsOut ELSE Append(fsOut, SubSeq(cipherData, 1, j))
    /\ fsCalls' = fsCalls + 1
    /\ UNCHANGED <<fsIn, fsDec, fsIvRead, fsDelivered>>
    /\ UNCHANGED notFs

FsNext ==
    \/ FsReadIvFails
    \/ FsRead
    \/ FsWrite

(***************************************************************************)
(* The UDP relay: HandleUDPConnection on each UDP listener, the global NAT *)
(* table nl with its timers, the global ReqList, and one Pipeloop per      *)
(* upstream socket.  The mutex of nl makes NATlist.Get and NATlist.Delete  *)
(* atomic steps.                                                           *)
(***************************************************************************)
MaxSocks == 2
MaxDatagrams == 2

Clients == { "c1", "c2" }
Listeners == { "u1", "u2" }

\* password[1] of the port of each listener, given to HandleUDPConnection
ListenerOpenvpn(l) ==
    IF l = "u1" THEN "ok" ELSE ""

\* the plaintext of the datagrams clients send: header and one payload byte
UdpDatagrams ==
    { <<1, 8, 8, 8, 8, 0, 53, 9>>,
      <<3, 1, 97, 0, 53, 9>>,
      <<1, 127, 0, 0, 1, 0, 80, 9>>,
      <<5, 0, 0, 0>> }

\* what the resolver may answer for a name: an address, or <<>> for a failure
UdpDnsAnswers ==
    { <<8, 8, 8, 8>>, <<>> }

\* the addresses upstream datagrams come from
ReplySources ==
    { [ip |-> <<8, 8, 8, 8>>, port |-> 53] }

\* net.UDPAddr.String
AddrString(a) ==
    IF To4(a.ip) # <<>>
    THEN IPString(a.ip) \o <<":">> \o Itoa(a.port)
    ELSE <<"[">> \o IPString(a.ip) \o <<"]", ":">> \o Itoa(a.port)

\* ParseHeader: the header of a reply from addr, in IPv4 or IPv6 form
ParseHeader(a) ==
    IF To4(a.ip) # <<>>
    THEN <<typeIPv4>> \o To4(a.ip) \o <<a.port \div 256, a.port % 256>>
    ELSE <<typeIPv6>> \o a.ip \o <<a.port \div 256, a.port % 256>>

\* HandleUDPConnection: the switch on buf[idType]; the destinations the
\* datagram may be sent to ([ok |-> FALSE] when the handler returns)
UdpParse(buf, openvpn) ==
    LET reqLen == ReqLenOf(buf)
        ips == CASE buf[1] = typeIPv4 -> { SubSeq(buf, 2, 5) }
                 [] buf[1] = typeIPv6 -> { SubSeq(buf, 2, 17) }
                 [] buf[1] = typeDm -> UdpDnsAnswers
                 [] OTHER -> { <<>> }
    IN  { IF dstIP = <<>>
          THEN [ok |-> FALSE, err |-> IF reqLen = -1 THEN "atyp" ELSE "resolve"]
          ELSE LET ip == IPString(dstIP)
                   port == Uint16BE(buf[reqLen - 1], buf[reqLen])
               IN  IF UdpDenied(ip, Itoa(port), openvpn)
                   THEN [ok |-> FALSE, err |-> "policy"]
                   ELSE [ok |-> TRUE,
                         dst |-> [ip |-> dstIP, port |-> port],
                         req |-> SubSeq(buf, 1, reqLen),
                         body |-> SubSeq(buf, reqLen + 1, Len(buf))]
          : dstIP \in ips }

NoCur == [src |-> "", dst |-> <<>>, req |-> <<>>, body |-> <<>>, remote |-> 0]
\* the last datagram a Pipeloop sent to a client: the listener socket it went
\* through, the client, the upstream socket and the source it came from, the
\* header put before it; n tells one reply from the next
NoReply == [via |-> "", to |-> "", sock |-> 0, from |-> <<>>, hdr |-> <<>>, n |-> 0]
EmptyReqList == [k \in {} |-> <<>>]

UdInit ==
    /\ ulOpen = [l \in Listeners |-> TRUE]
    /\ hPc = [l \in Listeners |-> "recv"]
    /\ hCur = [l \in Listeners |-> NoCur]
    /\ Conns = [c \in Clients |-> 0]
    /\ AliveConns = 0
    /\ socks = <<>>
    /\ ReqList = EmptyReqList
    /\ lastReply = NoReply
    /\ dgCount = 0
    /\ sentReqs = [c \in Clients |-> {}]

UdOff ==
    /\ ulOpen = [l \in Listeners |-> FALSE]
    /\ hPc = [l \in Listeners |-> "done"]
    /\ hCur = [l \in Listeners |-> NoCur]
    /\ Conns = [c \in Clients |-> 0]
    /\ AliveConns = 0
    /\ socks = <<>>
    /\ ReqList = EmptyReqList
    /\ lastReply = NoReply
    /\ dgCount = 0
    /\ sentReqs = [c \in Clients |-> {}]

\* CachedUDPConn.Close: c.timer.Stop() and c.UDP.Close()
CachedClose(sk) ==
    [sk EXCEPT !.open = FALSE,
               !.timer = IF sk.timer = "armed" THEN "stopped" ELSE sk.timer]

\* NATlist.Delete(srcaddr) on the socket table q of a step
NatDelete(c, q) ==
    /\ IF Conns[c] # 0
       THEN /\ socks' = [q EXCEPT ![Conns[c]] = CachedClose(q[Conns[c]])]
            /\ Conns' = [Conns EXCEPT ![c] = 0]
            /\ AliveConns' = AliveConns - 1
       ELSE /\ socks' = q
            /\ UNCHANGED <<Conns, AliveConns>>
    /\ ReqList' = EmptyReqList

\* a return of HandleUDPConnection, and with it runUDP's deferred conn.Close()
HandleReturn(l) ==
    /\ hPc' = [hPc EXCEPT ![l] = "done"]
    /\ hCur' = [hCur EXCEPT ![l] = NoCur]
    /\ ulOpen' = [ulOpen EXCEPT ![l] = FALSE]

\* HandleUDPConnection: c.ReadFromUDP, the header, the destination policy and
\* the insertion into ReqList
HandleRecv(l) ==
    /\ hPc[l] = "recv"
    /\ IF ~ulOpen[l]
       THEN /\ HandleReturn(l)
            /\ UNCHANGED <<ReqList, dgCount, sentReqs>>
       ELSE /\ dgCount < MaxDatagrams
            /\ dgCount' = dgCount + 1
            /\ \E src \in Clients, buf \in UdpDatagrams :
                 \E r \in UdpParse(buf, ListenerOpenvpn(l)) :
                   IF ~r.ok
                   THEN /\ HandleReturn(l)
                        /\ UNCHANGED <<ReqList, sentReqs>>
                   ELSE /\ ReqList' = IF AddrString(r.dst) \in DOMAIN ReqList
                                      THEN ReqList
                                      ELSE ReqList @@ (AddrString(r.dst) :> r.req)
                        /\ hPc' = [hPc EXCEPT ![l] = "get"]
                        /\ hCur' = [hCur EXCEPT ![l] =
                                       [src |-> src, dst |-> r.dst, req |-> r.req,
                                        body |-> r.body, remote |-> 0]]
                        /\ sentReqs' = [sentReqs EXCEPT ![src] =
                                           @ \cup { [dst |-> AddrString(r.dst), hdr |-> r.req] }]
                        /\ UNCHANGED ulOpen
    /\ UNCHANGED <<Conns, AliveConns, socks, lastReply>>
    /\ UNCHANGED notUd

\* NATlist.Get(src, c) called by HandleUDPConnection, and the return of the
\* handler when it fails
HandleGet(l) ==
    /\ hPc[l] = "get"
    /\ LET src == hCur[l].src
       IN  IF Conns[src] = 0
           THEN /\ AliveConns' = AliveConns + 1
                /\ \/ /\ Len(socks) < MaxSocks
                      /\ socks' = Append(socks, [client |-> src, ss |-> l, open |-> TRUE,
                                                 timer |-> "armed", pend |-> FALSE,
                                                 pipe |-> "read", reqs |-> {}])
                      /\ Conns' = [Conns EXCEPT ![src] = Len(socks) + 1]
                      /\ hCur' = [hCur EXCEPT ![l].remote = Len(socks) + 1]
                      /\ hPc' = [hPc EXCEPT ![l] = "send"]
                      /\ UNCHANGED ulOpen
                   \/ /\ HandleReturn(l)
                      /\ UNCHANGED <<socks, Conns>>
           ELSE /\ socks' = [socks EXCEPT ![Conns[src]].timer = "armed"]
                /\ hCur' = [hCur EXCEPT ![l].remote = Conns[src]]
                /\ hPc' = [hPc EXCEPT ![l] = "send"]
                /\ UNCHANGED <<AliveConns, Conns, ulOpen>>
    /\ UNCHANGED <<ReqList, lastReply, dgCount>>
    /\ UNCHANGED sentReqs
    /\ UNCHANGED notUd

\* HandleUDPConnection: remote.WriteToUDP(buf[reqLen:n], dst); reqs of the
\* upstream socket records what was sent over it
HandleSend(l) ==
    /\ hPc[l] = "send"
    /\ \/ /\ socks[hCur[l].remote].open
          /\ socks' = [socks EXCEPT ![hCur[l].remote].reqs =
                           @ \cup { [via |-> l, dst |-> AddrString(hCur[l].dst)] }]
          /\ hPc' = [hPc EXCEPT ![l] = "recv"]
          /\ hCur' = [hCur EXCEPT ![l] = NoCur]
          /\ UNCHANGED ulOpen
       \/ /\ HandleReturn(l)
          /\ UNCHANGED socks
    /\ UNCHANGED <<Conns, AliveConns, ReqList, lastReply, dgCount>>
    /\ UNCHANGED sentReqs
    /\ UNCHANGED notUd

\* the timer of an entry expires: time.AfterFunc starts c.Check
TimerFire(s) ==
    /\ socks[s].timer = "armed"
    /\ ~socks[s].pend
    /\ socks' = [socks EXCEPT ![s].timer = "fired", ![s].pend = TRUE]
    /\ UNCHANGED <<ulOpen, hPc, hCur, Conns, AliveConns, ReqList, lastReply, dgCount>>
    /\ UNCHANGED sentReqs
    /\ UNCHANGED notUd

\* CachedUDPConn.Check: nl.Delete(c.i)
Check(s) ==
    /\ socks[s].pend
    /\ NatDelete(socks[s].client, [socks EXCEPT ![s].pend = FALSE])
    /\ UNCHANGED <<ulOpen, hPc, hCur, lastReply, dgCount>>
    /\ UNCHANGED sentReqs
    /\ UNCHANGED notUd

\* Pipeloop: a datagram read from the upstream socket is sent to the client
\* through ss, with the header of ReqList or the one ParseHeader makes
PipeloopReply(s) ==
    /\ socks[s].pipe = "read"
    /\ socks[s].open
    /\ \E raddr \in ReplySources :
         lastReply' = [via |-> socks[s].ss,
                       to |-> socks[s].client,
                       sock |-> s,
                       from |-> AddrString(raddr),
                       hdr |-> IF AddrString(raddr) \in DOMAIN ReqList
                               THEN ReqList[AddrString(raddr)]
                               ELSE ParseHeader(raddr),
                       n |-> 1 - lastReply.n]
    /\ UNCHANGED <<ulOpen, hPc, hCur, Conns, AliveConns, socks, ReqList, dgCount>>
    /\ UNCHANGED sentReqs
    /\ UNCHANGED notUd

\* Pipeloop: remote.ReadFrom fails on the closed socket, the loop returns
\* and the deferred nl.Delete(srcaddr.String()) runs
PipeloopExit(s) ==
    /\ socks[s].pipe = "read"
    /\ ~socks[s].open
    /\ NatDelete(socks[s].client, [socks EXCEPT ![s].pipe = "done"])
    /\ UNCHANGED <<ulOpen, hPc, hCur, lastReply, dgCount>>
    /\ UNCHANGED sentReqs
    /\ UNCHANGED notUd

\* PasswdManager.del / updatePortPasswd: upl.listener.Close()
CloseUDPListener(l) ==
    /\ ulOpen[l]
    /\ ulOpen' = [ulOpen EXCEPT ![l] = FALSE]
    /\ UNCHANGED <<hPc, hCur, Conns, AliveConns, socks, ReqList, lastReply, dgCount>>
    /\ UNCHANGED sentReqs
    /\ UNCHANGED notUd

UdNext ==
    \/ \E l \in Listeners : HandleRecv(l)
    \/ \E l \in Listeners : HandleGet(l)
    \/ \E l \in Listeners : HandleSend(l)
    \/ \E s \in 1..Len(socks) : TimerFire(s)
    \/ \E s \in 1..Len(socks) : Check(s)
    \/ \E s \in 1..Len(socks) : PipeloopReply(s)
    \/ \E s \in 1..Len(socks) : PipeloopExit(s)
    \/ \E l \in Listeners : CloseUDPListener(l)

(***************************************************************************)
(* The port/password manager, the listener tasks and the reload.           *)
(* updatePasswd runs on the signal task, one port after the other; run and *)
(* runUDP are tasks of their own and interleave with it.                   *)
(***************************************************************************)
MaxReloads == 2

Ports == { "p1" }

\* the [3]string of a port: password, openvpn flag, udp flag
PortCfgs ==
    { <<"a", "", "">>, <<"b", "", "">>, <<"a", "ok", "">>, <<"a", "", "ok">>, <<"b", "", "ok">> }

\* a port that config.PortPassword does not hold
NoCfg == <<>>

Configs ==
    [Ports -> PortCfgs \cup { NoCfg }]

\* main and updatePortPasswd: go run(port, password), and go runUDP(port,
\* password) if udp && password[2] == "ok"
Spawn(u, port, password) ==
    { [kind |-> "run", port |-> port, cfg |-> password] }
        \cup (IF u /\ password[3] = "ok"
              THEN { [kind |-> "runUDP", port |-> port, cfg |-> password] }
              ELSE {})

\* net.Listen binds a port no open TCP listener holds, whatever the mutant
CanListenAlways(port) ==
    TRUE

\* net.Listen(netTcp, ":" + port) succeeds iff no open TCP listener holds the port
CanListen(port) ==
    \A i \in 1..Len(tcpL) : ~(tcpL[i].port = port /\ tcpL[i].open)

\* net.ListenUDP(netUdp, addr) succeeds iff no open UDP socket holds the port
CanListenUDP(port) ==
    \A i \in 1..Len(udpL) : ~(udpL[i].port = port /\ udpL[i].open)

\* every started listener task has bound (or failed to) and registered
TasksDone ==
    /\ tasks = EmptyBag
    /\ \A i \in 1..Len(tcpL) : tcpL[i].added
    /\ \A i \in 1..Len(udpL) : udpL[i].added

MgInit ==
    /\ udp \in BOOLEAN
    /\ config \in Configs
    /\ tcpL = <<>>
    /\ udpL = <<>>
    /\ portListener = [p \in Ports |-> 0]
    /\ udpListener = [p \in Ports |-> 0]
    /\ tasks = SetToBag(UNION { Spawn(udp, p, config[p]) : p \in { q \in Ports : config[q] # NoCfg } })
    /\ rlPc = "idle"
    /\ rlTodo = {}
    /\ rlDel = {}
    /\ rlOld = [p \in Ports |-> NoCfg]
    /\ rlCount = 0
    /\ rlQuiet = TRUE
    /\ rlErr = FALSE
    /\ delPc = "none"
    /\ delPort = ""
    /\ delPl = 0

MgOff ==
    /\ udp = FALSE
    /\ config = [p \in Ports |-> NoCfg]
    /\ tcpL = <<>>
    /\ udpL = <<>>
    /\ portListener = [p \in Ports |-> 0]
    /\ udpListener = [p \in Ports |-> 0]
    /\ tasks = EmptyBag
    /\ rlPc = "off"
    /\ rlTodo = {}
    /\ rlDel = {}
    /\ rlOld = [p \in Ports |-> NoCfg]
    /\ rlCount = 0
    /\ rlQuiet = TRUE
    /\ rlErr = FALSE
    /\ delPc = "none"
    /\ delPort = ""
    /\ delPl = 0

\* run: net.Listen; the task ends when the port cannot be bound
RunListen(t) ==
    /\ t \in BagToSet(tasks)
    /\ t.kind = "run"
    /\ tasks' = tasks (-) SetToBag({ t })
    /\ tcpL' = IF CanListen(t.port)
               THEN Append(tcpL, [port |-> t.port, cfg |-> t.cfg, open |-> TRUE,
                                  flag |-> FALSE, added |-> FALSE])
               ELSE tcpL
    /\ UNCHANGED <<udp, config, udpL, portListener, udpListener, rlPc, rlTodo, rlDel, rlOld,
                   rlCount, rlQuiet, delPc, delPort, delPl>>
    /\ UNCHANGED rlErr
    /\ UNCHANGED notMg

\* run: passwdManager.add(port, password, ln, &flag)
RunAdd(i) ==
    /\ ~tcpL[i].added
    /\ portListener' = [portListener EXCEPT ![tcpL[i].port] = i]
    /\ tcpL' = [tcpL EXCEPT ![i].added = TRUE]
    /\ UNCHANGED <<udp, config, udpL, udpListener, tasks, rlPc, rlTodo, rlDel, rlOld, rlCount,
                   rlQuiet, delPc, delPort, delPl>>
    /\ UNCHANGED rlErr
    /\ UNCHANGED notMg

\* runUDP: net.ListenUDP; the task ends when the port cannot be bound
RunUDPListen(t) ==
    /\ t \in BagToSet(tasks)
    /\ t.kind = "runUDP"
    /\ tasks' = tasks (-) SetToBag({ t })
    /\ udpL' = IF CanListenUDP(t.port)
               THEN Append(udpL, [port |-> t.port, cfg |-> t.cfg, open |-> TRUE,
                                  added |-> FALSE])
               ELSE udpL
    /\ UNCHANGED <<udp, config, tcpL, portListener, udpListener, rlPc, rlTodo, rlDel, rlOld,
                   rlCount, rlQuiet, delPc, delPort, delPl>>
    /\ UNCHANGED rlErr
    /\ UNCHANGED notMg

\* runUDP: passwdManager.addUDP(port, password, conn)
RunUDPAdd(i) ==
    /\ ~udpL[i].added
    /\ udpListener' = [udpListener EXCEPT ![udpL[i].port] = i]
    /\ udpL' = [udpL EXCEPT ![i].added = TRUE]
    /\ UNCHANGED <<udp, config, tcpL, portListener, tasks, rlPc, rlTodo, rlDel, rlOld, rlCount,
                   rlQuiet, delPc, delPort, delPl>>
    /\ UNCHANGED rlErr
    /\ UNCHANGED notMg

\* runUDP: HandleUDPConnection returns on an error of one request while the
\* socket is open, and the deferred conn.Close() closes the socket
RunUDPReturn(i) ==
    /\ udpL[i].added
    /\ udpL[i].open
    /\ udpL' = [udpL EXCEPT ![i].open = FALSE]
    /\ UNCHANGED <<udp, config, tcpL, portListener, udpListener, tasks, rlPc, rlTodo, rlDel,
                   rlOld, rlCount, rlQuiet, delPc, delPort, delPl>>
    /\ UNCHANGED rlErr
    /\ UNCHANGED notMg

\* what updatePasswd does next: the ports of the new map, then those left
\* in the old one
ReloadPc(todo, dels) ==
    IF todo # {} THEN "update" ELSE IF dels # {} THEN "del" ELSE "idle"

\* updatePasswd: the configuration file parses; config = newconfig
Reload(new) ==
    /\ rlPc = "idle"
    /\ rlCount < MaxReloads
    /\ rlCount' = rlCount + 1
    /\ rlQuiet' = (rlQuiet /\ TasksDone)
    /\ config' = new
    /\ rlOld' = config
    /\ rlTodo' = { p \in Ports : new[p] # NoCfg }
    /\ rlDel' = { p \in Ports : config[p] # NoCfg /\ new[p] = NoCfg }
    /\ rlPc' = ReloadPc(rlTodo', rlDel')
    /\ rlErr' = FALSE
    /\ UNCHANGED <<udp, tcpL, udpL, portListener, udpListener, tasks, delPc, delPort, delPl>>
    /\ UNCHANGED notMg

\* a wrong order: config = newconfig is done before the error is seen, and
\* the unreadable configuration holds no port
ReloadParseFailsConfigLost ==
    /\ rlPc = "idle"
    /\ rlErr' = TRUE
    /\ config' = [p \in Ports |-> NoCfg]
    /\ UNCHANGED <<udp, tcpL, udpL, portListener, udpListener, tasks, rlPc, rlTodo, rlDel,
                   rlOld, rlCount, rlQuiet, delPc, delPort, delPl>>
    /\ UNCHANGED notMg

\* updatePasswd: ss.ParseConfig(configFile) returns an error; log and return
ReloadParseFails ==
    /\ rlPc = "idle"
    /\ rlErr' = TRUE
    /\ UNCHANGED <<udp, config, tcpL, udpL, portListener, udpListener, tasks, rlPc, rlTodo,
                   rlDel, rlOld, rlCount, rlQuiet, delPc, delPort, delPl>>
    /\ UNCHANGED notMg

\* listener.Close() on listener i of the table q (0: no listener to close)
CloseIn(q, i) ==
    IF i = 0 THEN q ELSE [q EXCEPT ![i].open = FALSE]

\* updatePortPasswd: which of "new", "tcp" (password or openvpn flag
\* changed), "udp" (only the udp flag changed) or "same" applies
UpdateCase(port, password) ==
    LET pl == portListener[port]
    IN  IF pl = 0 THEN "new"
        ELSE IF tcpL[pl].cfg[1] # password[1] \/ tcpL[pl].cfg[2] # password[2] THEN "tcp"
        ELSE IF udp /\ tcpL[pl].cfg[3] # password[3] THEN "udp"
        ELSE "same"

\* updatePasswd: passwdManager.updatePortPasswd(port, passwd) and
\* delete(oldconfig.PortPassword, port)
UpdatePort(p) ==
    /\ rlPc = "update"
    /\ p \in rlTodo
    /\ LET c == UpdateCase(p, config[p])
       IN  /\ tcpL' = IF c = "tcp" THEN CloseIn(tcpL, portListener[p]) ELSE tcpL
           /\ udpL' = IF (c = "tcp" /\ udp) \/ c = "udp"
                      THEN CloseIn(udpL, udpListener[p])
                      ELSE udpL
           /\ tasks' = IF c = "same"
                       THEN tasks
                       ELSE tasks (+) SetToBag(Spawn(udp, p, config[p]))
    /\ rlTodo' = rlTodo \ { p }
    /\ rlPc' = ReloadPc(rlTodo', rlDel)
    /\ UNCHANGED <<udp, config, portListener, udpListener, rlDel, rlOld, rlCount, rlQuiet,
                   delPc, delPort, delPl>>
    /\ UNCHANGED rlErr
    /\ UNCHANGED notMg

\* del: pl, ok := pm.get(port); if !ok { return }
DelGet(p) ==
    /\ rlPc = "del"
    /\ delPc = "none"
    /\ p \in rlDel
    /\ IF portListener[p] = 0
       THEN /\ rlDel' = rlDel \ { p }
            /\ rlPc' = ReloadPc({}, rlDel')
            /\ UNCHANGED <<delPc, delPort, delPl>>
       ELSE /\ delPc' = "close"
            /\ delPort' = p
            /\ delPl' = portListener[p]
            /\ UNCHANGED <<rlDel, rlPc>>
    /\ UNCHANGED <<udp, config, tcpL, udpL, portListener, udpListener, tasks, rlTodo, rlOld,
                   rlCount, rlQuiet>>
    /\ UNCHANGED rlErr
    /\ UNCHANGED notMg

\* del: if udp { upl, ok := pm.getUDP(port); if !ok { return };
\* upl.listener.Close() }; pl.listener.Close()
DelClose ==
    /\ delPc = "close"
    /\ IF udp /\ udpListener[delPort] = 0
       THEN /\ delPc' = "none"
            /\ rlDel' = rlDel \ { delPort }
            /\ rlPc' = ReloadPc({}, rlDel')
            /\ UNCHANGED <<tcpL, udpL>>
       ELSE /\ udpL' = IF udp THEN CloseIn(udpL, udpListener[delPort]) ELSE udpL
            /\ tcpL' = CloseIn(tcpL, delPl)
            /\ delPc' = "remove"
            /\ UNCHANGED <<rlDel, rlPc>>
    /\ UNCHANGED <<udp, config, portListener, udpListener, tasks, rlTodo, rlOld, rlCount,
                   rlQuiet, delPort, delPl>>
    /\ UNCHANGED rlErr
    /\ UNCHANGED notMg

\* del: delete(pm.portListener, port); if udp { delete(pm.udpListener, port) };
\* atomic.StoreUint32(pl.pflag, 1)
DelRemove ==
    /\ delPc = "remove"
    /\ portListener' = [portListener EXCEPT ![delPort] = 0]
    /\ udpListener' = IF udp THEN [udpListener EXCEPT ![delPort] = 0] ELSE udpListener
    /\ tcpL' = [tcpL EXCEPT ![delPl].flag = TRUE]
    /\ delPc' = "none"
    /\ rlDel' = rlDel \ { delPort }
    /\ rlPc' = ReloadPc({}, rlDel')
    /\ UNCHANGED <<udp, config, udpL, tasks, rlTodo, rlOld, rlCount, rlQuiet, delPort, delPl>>
    /\ UNCHANGED rlErr
    /\ UNCHANGED notMg

MgNext ==
    \/ \E t \in BagToSet(tasks) : RunListen(t)
    \/ \E i \in 1..Len(tcpL) : RunAdd(i)
    \/ \E t \in BagToSet(tasks) : RunUDPListen(t)
    \/ \E i \in 1..Len(udpL) : RunUDPAdd(i)
    \/ \E i \in 1..Len(udpL) : RunUDPReturn(i)
    \/ \E new \in Configs : Reload(new)
    \/ ReloadParseFails
    \/ \E p \in Ports : UpdatePort(p)
    \/ \E p \in Ports : DelGet(p)
    \/ DelClose
    \/ DelRemove

(***************************************************************************)
(* The locks around ReqList.  Each task is followed between its lock and   *)
(* unlock calls: the serve loops of HandleUDPConnection, the Pipeloop      *)
(* tasks (which look ReqList up for every reply and call nl.Delete when    *)
(* they return) and the timer callbacks (Check calls nl.Delete).           *)
(***************************************************************************)
RqServe == { "h1", "h2" }
RqPipe == { "l1", "l2" }
RqTimer == { "t1", "t2" }
RqTasks == RqServe \cup RqPipe \cup RqTimer

\* the task is executing a statement that writes ReqList: the lookup and
\* insertion of HandleUDPConnection, or ReqList = map[string]*ReqNode{} of
\* NATlist.Delete
RqWrites(t) ==
    \/ (t \in RqServe /\ rqPc[t] = "in")
    \/ rqPc[t] = "clear"

\* the task is executing the lookup N, ok := ReqList[raddr.String()] of Pipeloop
RqReads(t) ==
    t \in RqPipe /\ rqPc[t] = "in"

RqInit ==
    /\ ReqListLock = [w |-> "", r |-> {}]
    /\ nlLock = ""
    /\ rqPc = [t \in RqTasks |-> "idle"]

RqOff ==
    /\ ReqListLock = [w |-> "", r |-> {}]
    /\ nlLock = ""
    /\ rqPc = [t \in RqTasks |-> "off"]

\* HandleUDPConnection: ReqListLock.Lock()
ServeLock(t) ==
    /\ t \in RqServe
    /\ rqPc[t] = "idle"
    /\ ReqListLock.w = ""
    /\ ReqListLock.r = {}
    /\ ReqListLock' = [ReqListLock EXCEPT !.w = t]
    /\ rqPc' = [rqPc EXCEPT ![t] = "in"]
    /\ UNCHANGED nlLock
    /\ UNCHANGED notRq

\* HandleUDPConnection: ReqListLock.Unlock() after the lookup and insertion
ServeUnlock(t) ==
    /\ t \in RqServe
    /\ rqPc[t] = "in"
    /\ ReqListLock' = [ReqListLock EXCEPT !.w = ""]
    /\ rqPc' = [rqPc EXCEPT ![t] = "out"]
    /\ UNCHANGED nlLock
    /\ UNCHANGED notRq

\* HandleUDPConnection: nl.Get(src, c), which begins with nl.Lock()
ServeGetLock(t) ==
    /\ t \in RqServe
    /\ rqPc[t] = "out"
    /\ nlLock = ""
    /\ nlLock' = t
    /\ rqPc' = [rqPc EXCEPT ![t] = "get"]
    /\ UNCHANGED ReqListLock
    /\ UNCHANGED notRq

\* NATlist.Get: the deferred nl.Unlock(); the loop goes on to the next datagram
ServeGetUnlock(t) ==
    /\ t \in RqServe
    /\ rqPc[t] = "get"
    /\ nlLock' = ""
    /\ rqPc' = [rqPc EXCEPT ![t] = "idle"]
    /\ UNCHANGED ReqListLock
    /\ UNCHANGED notRq

\* Pipeloop: ReqListLock.RLock()
PipeRLock(t) ==
    /\ t \in RqPipe
    /\ rqPc[t] = "idle"
    /\ ReqListLock.w = ""
    /\ ReqListLock' = [ReqListLock EXCEPT !.r = @ \cup { t }]
    /\ rqPc' = [rqPc EXCEPT ![t] = "in"]
    /\ UNCHANGED nlLock
    /\ UNCHANGED notRq

\* Pipeloop: ReqListLock.RUnlock() after the lookup
PipeRUnlock(t) ==
    /\ t \in RqPipe
    /\ rqPc[t] = "in"
    /\ ReqListLock' = [ReqListLock EXCEPT !.r = @ \ { t }]
    /\ rqPc' = [rqPc EXCEPT ![t] = "idle"]
    /\ UNCHANGED nlLock
    /\ UNCHANGED notRq

\* NATlist.Delete, called by Check or by the defer of Pipeloop: nl.Lock()
DeleteLock(t) ==
    /\ t \in RqPipe \cup RqTimer
    /\ rqPc[t] = "idle"
    /\ nlLock = ""
    /\ nlLock' = t
    /\ rqPc' = [rqPc EXCEPT ![t] = "nl"]
    /\ UNCHANGED ReqListLock
    /\ UNCHANGED notRq

\* NATlist.Delete: after the if, ReqList = map[string]*ReqNode{} begins
DeleteClear(t) ==
    /\ rqPc[t] = "nl"
    /\ rqPc' = [rqPc EXCEPT ![t] = "clear"]
    /\ UNCHANGED <<ReqListLock, nlLock>>
    /\ UNCHANGED notRq

\* NATlist.Delete: the deferred nl.Unlock()
DeleteUnlock(t) ==
    /\ rqPc[t] = "clear"
    /\ nlLock' = ""
    /\ rqPc' = [rqPc EXCEPT ![t] = "idle"]
    /\ UNCHANGED ReqListLock
    /\ UNCHANGED notRq

RqNext ==
    \/ \E t \in RqTasks : ServeLock(t)
    \/ \E t \in RqTasks : ServeUnlock(t)
    \/ \E t \in RqTasks : ServeGetLock(t)
    \/ \E t \in RqTasks : ServeGetUnlock(t)
    \/ \E t \in RqTasks : PipeRLock(t)
    \/ \E t \in RqTasks : PipeRUnlock(t)
    \/ \E t \in RqTasks : DeleteLock(t)
    \/ \E t \in RqTasks : DeleteClear(t)
    \/ \E t \in RqTasks : DeleteUnlock(t)

(***************************************************************************)
(* The mutex of the port/password manager.  The listener tasks call add    *)
(* and addUDP; the signal task runs updatePortPasswd and del, which call   *)
(* get and getUDP, and del removes the entries and stores the flag.        *)
(***************************************************************************)
PmRun == { "r1", "r2" }
PmRunUDP == { "v1", "v2" }
PmSig == "sig"
PmTasks == PmRun \cup PmRunUDP \cup { PmSig }

\* the task is executing a statement that reads a registry map (get, getUDP)
PmMapRead(t) ==
    pmPc[t] \in { "uGet", "uGetUDP", "dGet", "dGetUDP" }

\* the task is executing a statement that writes a registry map (add,
\* addUDP, the deletes of del)
PmMapWrite(t) ==
    pmPc[t] \in { "add", "addUDP", "dDel" }

\* the task is executing atomic.StoreUint32(pl.pflag, 1)
PmFlagWrite(t) ==
    pmPc[t] = "dFlag"

PmInit ==
    /\ pmLock = ""
    /\ pmPc = [t \in PmTasks |-> "idle"]

PmOff ==
    /\ pmLock = ""
    /\ pmPc = [t \in PmTasks |-> "off"]

\* add / addUDP: pm.Lock()
AddLock(t) ==
    /\ t \in PmRun \cup PmRunUDP
    /\ pmPc[t] = "idle"
    /\ pmLock = ""
    /\ pmLock' = t
    /\ pmPc' = [pmPc EXCEPT ![t] = IF t \in PmRun THEN "add" ELSE "addUDP"]
    /\ UNCHANGED notPm

\* add / addUDP: pm.Unlock() after the map assignment; the task serves
AddUnlock(t) ==
    /\ pmPc[t] \in { "add", "addUDP" }
    /\ pmLock' = ""
    /\ pmPc' = [pmPc EXCEPT ![t] = "serve"]
    /\ UNCHANGED notPm

\* run / runUDP: the task ends (its listener was closed) and a task for the
\* port is started again
Restart(t) ==
    /\ pmPc[t] = "serve"
    /\ pmPc' = [pmPc EXCEPT ![t] = "idle"]
    /\ UNCHANGED pmLock
    /\ UNCHANGED notPm

\* a get that reads the map without the mutex
GetLockSkipped(op) ==
    /\ pmPc[PmSig] = "idle"
    /\ pmPc' = [pmPc EXCEPT ![PmSig] = IF op = "update" THEN "uGet" ELSE "dGet"]
    /\ UNCHANGED pmLock
    /\ UNCHANGED notPm

\* updatePortPasswd / del: pm.get(port), its pm.Lock()
GetLock(op) ==
    /\ pmPc[PmSig] = "idle"
    /\ pmLock = ""
    /\ pmLock' = PmSig
    /\ pmPc' = [pmPc EXCEPT ![PmSig] = IF op = "update" THEN "uGet" ELSE "dGet"]
    /\ UNCHANGED notPm

\* get: pm.Unlock() and return; updatePortPasswd then goes on to getUDP or
\* not, del returns (!ok), goes on to getUDP (udp) or to the closing
GetUnlock ==
    /\ pmPc[PmSig] \in { "uGet", "dGet" }
    /\ pmLock' = IF pmLock = PmSig THEN "" ELSE pmLock
    /\ \E next \in IF pmPc[PmSig] = "uGet"
                    THEN { "idle", "uGot" }
                    ELSE { "idle", "dGot", "dClose" } :
         pmPc' = [pmPc EXCEPT ![PmSig] = next]
    /\ UNCHANGED notPm

\* updatePortPasswd / del: pm.getUDP(port), its pm.Lock()
GetUDPLock ==
    /\ pmPc[PmSig] \in { "uGot", "dGot" }
    /\ pmLock = ""
    /\ pmLock' = PmSig
    /\ pmPc' = [pmPc EXCEPT ![PmSig] = IF pmPc[PmSig] = "uGot" THEN "uGetUDP" ELSE "dGetUDP"]
    /\ UNCHANGED notPm

\* getUDP: pm.Unlock() and return; updatePortPasswd is done with the maps,
\* del returns (!ok) or goes on to the closing
GetUDPUnlock ==
    /\ pmPc[PmSig] \in { "uGetUDP", "dGetUDP" }
    /\ pmLock' = ""
    /\ \E next \in IF pmPc[PmSig] = "uGetUDP" THEN { "idle" } ELSE { "idle", "dClose" } :
         pmPc' = [pmPc EXCEPT ![PmSig] = next]
    /\ UNCHANGED notPm

\* del: after the listeners are closed, pm.Lock() before the deletes
DelLock ==
    /\ pmPc[PmSig] = "dClose"
    /\ pmLock = ""
    /\ pmLock' = PmSig
    /\ pmPc' = [pmPc EXCEPT ![PmSig] = "dDel"]
    /\ UNCHANGED notPm

\* del: pm.Unlock() after the deletes; atomic.StoreUint32(pl.pflag, 1) begins
DelUnlock ==
    /\ pmPc[PmSig] = "dDel"
    /\ pmLock' = ""
    /\ pmPc' = [pmPc EXCEPT ![PmSig] = "dFlag"]
    /\ UNCHANGED notPm

\* del: the flag is stored; ss.DelTraffic(port) and return
DelStored ==
    /\ pmPc[PmSig] = "dFlag"
    /\ pmPc' = [pmPc EXCEPT ![PmSig] = "idle"]
    /\ UNCHANGED pmLock
    /\ UNCHANGED notPm

PmNext ==
    \/ \E t \in PmTasks : AddLock(t)
    \/ \E t \in PmTasks : AddUnlock(t)
    \/ \E t \in PmTasks : Restart(t)
    \/ \E op \in { "update", "del" } : GetLock(op)
    \/ GetUnlock
    \/ GetUDPLock
    \/ GetUDPUnlock
    \/ DelLock
    \/ DelUnlock
    \/ DelStored

(***************************************************************************)
(* UDPConn.ReadFromUDP and the loop of HandleUDPConnection around it.  A   *)
(* datagram on the wire is the IV followed by the ciphertext; senders may  *)
(* send any prefix of one.  The handler's buf is kept from one datagram to *)
(* the next.  A slice expression whose bounds are out of range panics, and *)
(* nothing recovers the panic.                                             *)
(***************************************************************************)
MaxReads == 2
UrBufLen == 8

\* the plaintext of the datagrams senders encrypt
UrPlains ==
    { <<1, 0, 0, 0, 1, 0, 3, 2>>,
      <<3, 1, 2, 0, 3, 2>>,
      <<2, 0>> }

\* what arrives: IV and ciphertext, or the first bytes of them only
UrWires ==
    UNION { { SubSeq(PeerIV \o Encrypt(NewStream(PeerIV), pl), 1, k) :
                k \in 0..(IvLen + Len(pl)) } : pl \in UrPlains }

\* copy(dst, src): src over the beginning of dst
CopyOver(dst, src) ==
    [i \in 1..Len(dst) |-> IF i <= Len(src) THEN src[i] ELSE dst[i]]

UrInit ==
    /\ urPc = "wait"
    /\ urWire = <<>>
    /\ urBuf = [i \in 1..UrBufLen |-> 0]
    /\ urN = 0
    /\ urErr = FALSE
    /\ urInitDecrypt = FALSE
    /\ urFwd = <<>>
    /\ urCount = 0

UrOff ==
    /\ urPc = "off"
    /\ urWire = <<>>
    /\ urBuf = <<>>
    /\ urN = 0
    /\ urErr = FALSE
    /\ urInitDecrypt = FALSE
    /\ urFwd = <<>>
    /\ urCount = 0

\* ReadFromUDP: c.UDP.ReadFromUDP delivers the datagram d; iv := buf[:ivLen],
\* c.initDecrypt(iv), c.decrypt(b[0:n-ivLen], buf[ivLen:n]), n = n - ivLen.
\* b[0:n-ivLen] panics when n < ivLen.
ReadFromUDP(d) ==
    /\ urPc = "wait"
    /\ urCount < MaxReads
    /\ urCount' = urCount + 1
    /\ urWire' = d
    /\ urInitDecrypt' = TRUE
    /\ urErr' = FALSE
    /\ urFwd' = <<>>
    /\ IF Len(d) < IvLen
       THEN /\ urPc' = "panicked"
            /\ UNCHANGED <<urBuf, urN>>
       ELSE /\ urPc' = "got"
            /\ urN' = Len(d) - IvLen
            /\ urBuf' = CopyOver(urBuf, Decrypt(NewStream(SubSeq(d, 1, IvLen)),
                                                SubSeq(d, IvLen + 1, Len(d))))
    /\ UNCHANGED notUr

\* ReadFromUDP: c.UDP.ReadFromUDP fails (the socket was closed); the error
\* is returned and the handler returns
ReadFromUDPFails ==
    /\ urPc = "wait"
    /\ urPc' = "returned"
    /\ urErr' = TRUE
    /\ urInitDecrypt' = FALSE
    /\ urFwd' = <<>>
    /\ UNCHANGED <<urWire, urBuf, urN, urCount>>
    /\ UNCHANGED notUr

\* HandleUDPConnection after ReadFromUDP returned n and no error: the switch
\* on buf[idType], the policy, nl.Get and remote.WriteToUDP(buf[reqLen:n]).
\* buf[reqLen:n] panics when n < reqLen.
UrHandle ==
    /\ urPc = "got"
    /\ \E r \in UdpParse(urBuf, "") :
         IF ~r.ok
         THEN /\ urPc' = "returned"
              /\ UNCHANGED urFwd
         ELSE IF urN < Len(r.req)
         THEN /\ urPc' = "panicked"
              /\ UNCHANGED urFwd
         ELSE /\ urPc' = "wait"
              /\ urFwd' = <<r.dst, SubSeq(urBuf, Len(r.req) + 1, urN)>>
    /\ UNCHANGED <<urWire, urBuf, urN, urErr, urInitDecrypt, urCount>>
    /\ UNCHANGED notUr

\* HandleUDPConnection: nl.Get fails and the handler returns
UrGetFails ==
    /\ urPc = "got"
    /\ \E r \in UdpParse(urBuf, "") : r.ok
    /\ urPc' = "returned"
    /\ UNCHANGED <<urWire, urBuf, urN, urErr, urInitDecrypt, urFwd, urCount>>
    /\ UNCHANGED notUr

UrNext ==
    \/ \E d \in UrWires : ReadFromUDP(d)
    \/ ReadFromUDPFails
    \/ UrHandle
    \/ UrGetFails

(***************************************************************************)
(* The specifications.                                                     *)
(***************************************************************************)
\* the initial state in which only the named part runs
Start(part) ==
    /\ IF part = "policy" THEN PolInit ELSE PolOff
    /\ IF part = "tcp" THEN TcInit ELSE TcOff
    /\ IF part = "stream" THEN FsInit ELSE FsOff
    /\ IF part = "udp" THEN UdInit ELSE UdOff
    /\ IF part = "manager" THEN MgInit ELSE MgOff
    /\ IF part = "reqlock" THEN RqInit ELSE RqOff
    /\ IF part = "pmlock" THEN PmInit ELSE PmOff
    /\ IF part = "udpread" THEN UrInit ELSE UrOff

InitPolicy == Start("policy")
InitTCP == Start("tcp")
InitStream == Start("stream")
InitUDP == Start("udp")
InitMgr == Start("manager")
InitReqLock == Start("reqlock")
InitPmLock == Start("pmlock")
InitUdpRead == Start("udpread")

SpecPolicy == InitPolicy /\ [][PolNext]_vars
SpecTCP == InitTCP /\ [][TcNext]_vars
SpecStream == InitStream /\ [][FsNext]_vars
SpecUDP == InitUDP /\ [][UdNext]_vars
SpecMgr == InitMgr /\ [][MgNext]_vars
SpecReqLock == InitReqLock /\ [][RqNext]_vars
SpecPmLock == InitPmLock /\ [][PmNext]_vars
SpecUdpRead == InitUdpRead /\ [][UrNext]_vars

(***************************************************************************)
(* The claims.                                                             *)
(***************************************************************************)

\* C1 (SpecUDP): when the timer of the entry of client c expires, Check
\* removes the entry and closes its upstream socket; and the entry a later
\* get_or_create(c) makes is not removed by what is left of the expired
\* entry: a Check or the deferred Delete of the Pipeloop of socket s removes
\* no entry but the one of s.
C1_ExpiryThenFreshEntry ==
    [][\A s \in 1..Len(socks) :
         /\ (socks[s].pend /\ ~socks'[s].pend /\ Conns[socks[s].client] = s)
                => (Conns'[socks[s].client] = 0 /\ ~socks'[s].open)
         /\ ((socks[s].pend /\ ~socks'[s].pend)
                \/ (socks[s].pipe = "read" /\ socks'[s].pipe = "done"))
                => \A c \in Clients : (Conns[c] # 0 /\ Conns'[c] # Conns[c]) => Conns[c] = s
      ]_vars

\* C4 (SpecUDP): a step of the serve loop of an open UDP listener, whatever
\* the error of the datagram it handles, leaves the listener open and the
\* loop running.
C4_ErrorKeepsListener ==
    [][\A l \in Listeners :
         (ulOpen[l] /\ hPc'[l] # hPc[l]) => (ulOpen'[l] /\ hPc'[l] # "done")
      ]_vars

\* C7 (SpecUDP): the alive count equals the number of entries of the NAT
\* table, which equals the number of open upstream sockets, and every entry
\* has an armed timer (or its expiry callback is waiting to delete it).
C7_AliveCountMatches ==
    /\ AliveConns = Cardinality({ c \in Clients : Conns[c] # 0 })
    /\ Cardinality({ c \in Clients : Conns[c] # 0 })
          = Cardinality({ s \in 1..Len(socks) : socks[s].open })
    /\ \A c \in Clients :
         Conns[c] # 0 => (socks[Conns[c]].timer = "armed" \/ socks[Conns[c]].pend)

\* C2 (SpecMgr): once a reload that began with nothing in flight has been
\* applied and the listener tasks it started have run, then, under either
\* setting of udp: a port the reload removed has no open TCP listener and no
\* registry entry; a port whose password it changed, and a port it added, has
\* a registered open TCP listener that authenticates with the new password.
C2_ReloadEndState ==
    (rlPc = "idle" /\ rlCount > 0 /\ rlQuiet /\ TasksDone) =>
        \A p \in Ports :
            /\ (rlOld[p] # NoCfg /\ config[p] = NoCfg) =>
                   /\ portListener[p] = 0
                   /\ \A i \in 1..Len(tcpL) : tcpL[i].port = p => ~tcpL[i].open
            /\ (config[p] # NoCfg /\ (rlOld[p] = NoCfg \/ rlOld[p][1] # config[p][1])) =>
                   /\ portListener[p] # 0
                   /\ tcpL[portListener[p]].open
                   /\ tcpL[portListener[p]].cfg[1] = config[p][1]

\* C5 (SpecMgr): the teardown flag of a port's TCP listener is set when the
\* manager has torn the listener down, by a deletion or by the replacement an
\* update makes, and is not set on the listener the registry serves the port
\* with.
C5_TeardownFlag ==
    \A i \in 1..Len(tcpL) :
        /\ (rlPc = "idle" /\ tcpL[i].added /\ ~tcpL[i].open) => tcpL[i].flag
        /\ (tcpL[i].open /\ portListener[tcpL[i].port] = i) => ~tcpL[i].flag

\* C6 (SpecMgr): update(port, cfg) changes no listener and starts no task
\* when cfg is the configuration the previous reload applied to the port,
\* every reload so far having begun with nothing in flight; this includes the
\* repeat of an update that changed only udp_flag.
C6_SameConfigNoChange ==
    [][\A p \in Ports :
         (rlPc = "update" /\ p \in rlTodo /\ p \notin rlTodo'
            /\ rlQuiet /\ rlCount > 1 /\ rlOld[p] = config[p])
         => (tcpL' = tcpL /\ udpL' = udpL /\ tasks' = tasks
               /\ portListener' = portListener /\ udpListener' = udpListener)
      ]_vars

C3_SamePolicy ==
    LET ip == IPString(polIp)
        p == Uint16BE(polPort[1], polPort[2])
        forbidden == \/ (HasPrefix(ip, S127) /\ ~(p = 1194 /\ polFlag = "ok"))
                     \/ HasPrefix(ip, S108)
                     \/ ip = SLoop6
    IN  /\ polTcp # "none" => (polTcp = "rejected" <=> forbidden)
        /\ polUdp # "none" => (polUdp = "rejected" <=> forbidden)
        /\ (polTcp # "none" /\ polUdp # "none") => (polTcp = "dial" <=> polUdp = "send")

\* C9 (SpecTCP): the bytes read past the request header are written to the
\* upstream connection before the splicing starts, so they are the prefix of
\* what upstream receives, which is a prefix of what the client sent after
\* the header; when their write fails both connections are closed and no
\* splicing starts.
C9_LeftoverBeforeSplice ==
    /\ tcPipe => IsPrefixOf(tcExtra, tcUp)
    /\ tcReqLen > 0 => IsPrefixOf(tcUp, SubSeq(tcSent, tcReqLen + 1, Len(tcSent)))
    /\ tcErr = "extra" => (~tcPipe /\ tcConn = "closed" /\ tcRemote = "closed")

\* Witness of C9: the splicing runs after a non-empty leftover was written
\* and has moved more bytes after it.
C9_Witness ==
    /\ tcPipe
    /\ tcExtra # <<>>
    /\ Len(tcUp) > Len(tcExtra)

\* C10 (SpecStream): over the life of a stream, failing calls included,
\* exactly iv_len bytes are read as the decryptor IV before any plaintext is
\* delivered, and the encryptor IV is written once, whole, at the start of
\* the first socket write, in the same write as its ciphertext.
C10_IvExactlyOnce ==
    /\ fsIvRead <= IvLen
    /\ fsDelivered # <<>> => fsIvRead = IvLen
    /\ \A k \in 1..Len(fsOut) :
         /\ k > 1 => \A i \in 1..Len(fsOut[k]) : fsOut[k][i][1] # "iv"
         /\ (\E i \in 1..Len(fsOut[k]) : fsOut[k][i][1] = "ct")
               => (Len(fsOut[1]) > IvLen /\ SubSeq(fsOut[1], 1, IvLen) = Tag("iv", OwnIV))

\* C11 (SpecMgr): a reload whose configuration file fails to parse leaves
\* the active configuration, both registry maps and every listener as they
\* were, and starts no listener task.
C11_FailedReloadKeepsAll ==
    [][(~rlErr /\ rlErr')
         => (config' = config /\ portListener' = portListener /\ udpListener' = udpListener
               /\ tcpL' = tcpL /\ udpL' = udpL /\ tasks' = tasks)
      ]_vars

\* Witness of C11: a reload failed to parse while a port of the active
\* configuration has its registered TCP listener open.
C11_Witness ==
    /\ rlErr
    /\ \E p \in Ports :
         /\ config[p] # NoCfg
         /\ portListener[p] # 0
         /\ tcpL[portListener[p]].open

\* C12 (SpecUDP): a reply relayed for requests that arrived on the UDP
\* listener of a port goes back to the client through the framed socket of
\* that listener, also when one client address sends to two listeners: when
\* a Pipeloop relays a reply, every request its client sent to the source of
\* the reply over that upstream socket arrived on the listener the reply
\* goes through.
C12_ReplyThroughSameListener ==
    [][lastReply' # lastReply
         => \A r \in socks[lastReply'.sock].reqs :
              r.dst = lastReply'.from => r.via = lastReply'.via
      ]_vars

\* C13 (SpecUDP): a reply relayed to a client carries the header of that
\* client's request: when every request the client ever sent to the source
\* of the reply had one and the same Domain-typed header, the reply is
\* prefixed with exactly those bytes, whatever other clients sent and
\* whichever of their NAT entries were deleted (the reply is one to a
\* request that was forwarded over the client's upstream socket).
C13_ReplyKeepsDomainHeader ==
    [][lastReply' # lastReply
         => LET asked == { r.hdr : r \in { q \in sentReqs[lastReply'.to] :
                                              q.dst = lastReply'.from } }
            IN  \A h \in asked :
                  (/\ asked = { h }
                   /\ h[1] = typeDm
                   /\ \E r \in socks[lastReply'.sock].reqs : r.dst = lastReply'.from)
                  => lastReply'.hdr = h
      ]_vars

\* C14 (SpecMgr): a del(port) that found a registered TCP listener ends with
\* that listener closed, the port in neither registry map and the listener's
\* teardown flag set, whatever udp is and whether or not the port has a UDP
\* listener; a del(port) that found none changes no listener and no map.
C14_DeleteTearsDown ==
    [][/\ (delPc # "none" /\ delPc' = "none")
            => /\ ~tcpL'[delPl].open
               /\ tcpL'[delPl].flag
               /\ portListener'[delPort] = 0
               /\ udpListener'[delPort] = 0
       /\ (delPc = "none" /\ delPc' = "none" /\ rlDel' # rlDel)
            => UNCHANGED <<tcpL, udpL, portListener, udpListener>>
      ]_vars

\* C15 (SpecUDP): NATlist.Delete called for an entry that is already gone
\* (the later of the expiry callback and the cleanup of the reverse path of
\* one upstream socket) changes neither the NAT table nor the alive count
\* nor ReqList, and closes no socket, a newer one of the same client included.
C15_SecondDeleteNoOp ==
    [][\A s \in 1..Len(socks) :
         (/\ \/ (socks[s].pend /\ ~socks'[s].pend)
             \/ (socks[s].pipe = "read" /\ socks'[s].pipe = "done")
          /\ Conns[socks[s].client] # s)
         => /\ UNCHANGED <<Conns, AliveConns, ReqList>>
            /\ \A t \in 1..Len(socks) : socks'[t].open = socks[t].open
      ]_vars

\* C16 (SpecUDP): the NAT entries created through a UDP listener do not
\* outlive its teardown by the manager: once the manager has closed the
\* socket of a listener (its serve loop has not returned by itself), no
\* reverse path relays a reply through that socket, and no serve loop is
\* handed, for a client that keeps sending, an entry bound to it.
C16_TeardownDestroysEntries ==
    [][/\ (lastReply' # lastReply /\ hPc[lastReply'.via] # "done")
            => ulOpen[lastReply'.via]
       /\ \A l \in Listeners :
            (hPc[l] = "get" /\ hPc'[l] = "send")
            => LET ss == socks'[hCur'[l].remote].ss
               IN  ss # l => (ulOpen[ss] \/ hPc[ss] = "done")
      ]_vars

\* C17 (SpecReqLock): every access to ReqList is made under ReqListLock: a
\* task that writes ReqList holds the lock for writing, a task that reads it
\* holds it for reading or writing, and no write runs at the same time as
\* another access.
C17_ReqListUnderLock ==
    \A t \in RqTasks :
        /\ RqWrites(t) => ReqListLock.w = t
        /\ RqReads(t) => (t \in ReqListLock.r \/ ReqListLock.w = t)
        /\ RqWrites(t) => \A u \in RqTasks \ { t } : ~RqWrites(u) /\ ~RqReads(u)

\* C18 (SpecPmLock), as stated: the registry maps and the teardown flags
\* are written, and the maps are read, only by a task that holds the
\* manager's mutex.
C18_AllUnderMutex ==
    \A t \in PmTasks :
        (PmMapRead(t) \/ PmMapWrite(t) \/ PmFlagWrite(t)) => pmLock = t

\* C18 (SpecPmLock), amended: the registry maps are written and read only
\* by a task that holds the manager's mutex, under every interleaving of
\* add, addUDP, get, getUDP, del and update; the teardown flag is stored by
\* del after it has released the mutex (by an atomic store).
C18_MapsUnderMutex ==
    \A t \in PmTasks :
        /\ (PmMapRead(t) \/ PmMapWrite(t)) => pmLock = t
        /\ PmFlagWrite(t) => pmLock # t

\* Witness of C18: del stores the flag while a listener task is inside add
\* with the mutex held and another one has registered.
C18_Witness ==
    /\ PmFlagWrite(PmSig)
    /\ \E t \in PmRun : PmMapWrite(t) /\ pmLock = t
    /\ \E t \in PmRunUDP : pmPc[t] = "serve"

\* C19 (SpecUdpRead): once ReadFromUDP has been given a datagram shorter
\* than iv_len + 1 bytes, it has returned an error to its caller without
\* calling initDecrypt, no slice expression has panicked, and nothing was
\* forwarded upstream for that datagram.
C19_ShortDatagramDropped ==
    (urCount > 0 /\ Len(urWire) < IvLen + 1) =>
        /\ urErr
        /\ ~urInitDecrypt
        /\ urPc # "panicked"
        /\ urFwd = <<>>

\* C20 (SpecTCP): when getRequest has returned, either it failed and gave
\* no host and no leftover, or the header length follows from the address
\* type alone (7, 19, or 4 + L for a name of L >= 1 bytes), the port is the
\* big-endian number in the last two header bytes and the leftover is made of
\* the bytes read beyond the header; a name of length 0 and an address type
\* other than 1, 3 and 4 make it fail.
C20_HeaderParsed ==
    (tcPc = "connect" \/ tcErr \in { "atyp", "read" }) =>
        LET bad == /\ Len(tcSent) >= 2
                   /\ \/ tcSent[1] \notin { typeIPv4, typeDm, typeIPv6 }
                      \/ tcSent[1] = typeDm /\ tcSent[2] = 0
        IN  /\ bad => tcErr # "none"
            /\ tcErr # "none" => (tcHost = <<>> /\ tcExtra = <<>>)
            /\ tcErr = "none" =>
                  /\ tcReqLen = (CASE tcSent[1] = typeIPv4 -> 7
                                   [] tcSent[1] = typeIPv6 -> 19
                                   [] OTHER -> 1 + 1 + tcSent[2] + 2)
                  /\ tcPort = Itoa(tcSent[tcReqLen - 1] * 256 + tcSent[tcReqLen])
                  /\ tcExtra = SubSeq(tcSent, tcReqLen + 1, Max(tcRead, tcReqLen))

\* C21 (SpecUDP): when NATlist.Get has refreshed and returned an existing
\* entry to a handler that is about to send on it, while the callback of the
\* timer that had already fired is still waiting, no step closes the
\* upstream socket of that entry or removes the entry.
C21_RefreshedEntrySurvives ==
    [][\A l \in Listeners :
         LET s == hCur[l].remote
         IN  (/\ hPc[l] = "send"
              /\ s # 0
              /\ Conns[hCur[l].src] = s
              /\ socks[s].open
              /\ socks[s].pend
              /\ socks[s].timer = "armed")
             => (socks'[s].open /\ Conns'[hCur[l].src] = s)]_vars

\* C22 (SpecMgr): every TCP listener that is open and whose add has
\* completed is the listener the registry records for its port, so del has
\* not removed the registry entry of a listener other than the one it closed.
C22_OpenListenerRegistered ==
    \A i \in 1..Len(tcpL) :
        (tcpL[i].open /\ tcpL[i].added) => portListener[tcpL[i].port] = i

====
